---- MODULE Spec2Model ----
(***************************************************************************)
(* EchoPersona: the audio-ingestion decision pipeline                      *)
(* (backend/ai_engine/voice_processor.py, VoiceProcessor.speech_to_text)   *)
(* and the hybrid generation router                                        *)
(* (backend/ai_engine/hybrid_llm_service.py, HybridLLMService).            *)
(* and the speech entry point                                              *)
(* (backend/ai_engine/conversation_engine.py, process_speech_input).       *)
(*                                                                         *)
(* Optional[str] / Optional[bytes] values are sequences of length 0 or 1:  *)
(* None is << >>, a value v is <<v>>.  A text is a sequence of one-char    *)
(* strings.  A byte buffer is represented by its length.  The texts of    *)
(* the generation backends are TLA+ strings.                               *)
(***************************************************************************)
EXTENDS Integers, Sequences, FiniteSets, TLC

VARIABLES
    \* ---- VoiceProcessor.speech_to_text, one invocation ----
    audio_data,          \* the blob handed to speech_to_text
    validation,          \* result of _validate_audio_data
    format_info,         \* result of _analyze_audio_format
    recognition_methods, \* the strategy list built at lines 182-208
    method_idx,          \* position of the for loop at line 211
    rate_idx,            \* position of the for loop at line 812
    converted_audio,     \* the local converted_audio of the strategy being tried
    rec,                 \* frame of the running recognition step
    last_result,         \* what the most recent recognition step returned
    backend_called,      \* TRUE once a recognition backend has been called
    vp_pc,               \* position inside speech_to_text
    vp_ret,              \* value returned by speech_to_text
    vp_log,              \* history: the expensive steps executed, in order
    temp_files,          \* the temporary files of this invocation that exist on disk
    \* ---- HybridLLMService, one instance ----
    use_ollama,          \* self.use_ollama: "None", "True" or "False"
    running,             \* the generate_response call holding the event loop (0: none)
    gen_pc,              \* position of each generate_response call
    gen_via,             \* where the pending remote call was issued from
    gen_out,             \* the generated_text each call handed to _clean_and_validate_response
    gen_ret,             \* value returned by each generate_response call
    gen_raised,          \* TRUE when an exception left generate_response
    gen_log,             \* history: probe/backend invocations and pin writes, in order
    started,             \* number of generate_response calls begun so far
    \* ---- ConversationEngine.process_speech_input, one invocation ----
    psi_pc,              \* position inside process_speech_input ("idle": not invoked)
    transcribed_text,    \* what speech_to_text returned to it
    response_text,       \* the text to be spoken
    psi_result           \* the dict it returns

voiceVars == <<audio_data, validation, format_info, recognition_methods, method_idx,
               rate_idx, converted_audio, rec, last_result, backend_called, vp_pc, vp_ret, vp_log,
               temp_files>>
routerVars == <<use_ollama, running, gen_pc, gen_via, gen_out, gen_ret, gen_raised, gen_log,
                started>>
speechVars == <<psi_pc, transcribed_text, response_text, psi_result>>
vars == <<voiceVars, routerVars, speechVars>>

----------------------------------------------------------------------------
(* Program constants of voice_processor.py *)
FormatMinSize == 12
WavHeaderMin == 44
VerySmallSize == 1000
SmallSize == 2000
EarlyExitSize == 500
QuickPathSize == 2000
QuickMinConverted == 44
RawPcmMinSize == 1000
MinConverted == 44
AltMinSize == 50
OpusHeaderSkip == 50
MinExtracted == 100
RawExtractMinWav == 1000
MockMinSize == 200
BytesPerKb == 1024
PcmMinSamples == 100
PcmMinWav == 44
WavHeaderSize == 44

(* Bounds of the model *)
Delta == 1           \* blob lengths are taken within Delta of every threshold
OpusNear == 64       \* a position of 'OpusHead' close to the start of the blob
MaxHashByte == 1     \* values of the first byte of the blob's md5 digest
MaxCalls == 3        \* generate_response calls on the one router instance
MaxInterleaved == 2  \* of which this many may be in progress at the same time
BigWav == 4000       \* length of a converted WAV that is not near any threshold
MaxBlobLen == 2100   \* the gate alone is applied to every length up to MaxBlobLen

None == << >>
Some(v) == <<v>>
\* Python truthiness of an Optional[str] / Optional[bytes-length]
TruthyText(o) == o # None /\ o[1] # << >>
TruthyBytes(o) == o # None /\ o[1] > 0

Max(a, b) == IF a > b THEN a ELSE b

RECURSIVE LStrip(_)
\* str.lstrip(): drop leading whitespace
LStrip(t) == IF t # << >> /\ Head(t) = " " THEN LStrip(Tail(t)) ELSE t

RECURSIVE RStrip(_)
\* str.rstrip(): drop trailing whitespace
RStrip(t) == IF t # << >> /\ t[Len(t)] = " " THEN RStrip(SubSeq(t, 1, Len(t) - 1)) ELSE t

\* str.strip() as used at lines 716 and 718
Strip(t) == RStrip(LStrip(t))

----------------------------------------------------------------------------
(* The blobs.  A blob is described by what the code reads of it: its       *)
(* length, bytes[0:4], bytes[8:12], whether 'ftyp' occurs in bytes[0:20],  *)
(* the position of 'OpusHead' (-1: absent) and the first byte of its md5.  *)

Thresholds == {0, FormatMinSize, WavHeaderMin, AltMinSize, MockMinSize, EarlyExitSize,
               VerySmallSize, BytesPerKb, SmallSize}
Lengths == {n \in {t + d : t \in Thresholds, d \in (0 - Delta)..Delta} : n >= 0}

Magic4 == {"RIFF", "EBML", "OggS", "other"}
Magic8 == {"WAVE", "other"}

\* positions of 'OpusHead' tried for a blob of length n: absent, at the very start,
\* near the start, and so late that fewer than MinExtracted bytes follow the header
OpusStarts(n) == {-1} \cup {p \in {0, OpusNear, n - OpusHeaderSkip - MinExtracted} :
                              p >= 0 /\ p + 8 <= n}

Blobs == {b \in [len : Lengths, b0_4 : Magic4, b8_12 : Magic8, ftyp20 : BOOLEAN,
                 opus_start : {-1, 0, OpusNear} \cup {n - OpusHeaderSkip - MinExtracted : n \in Lengths},
                 md5_0 : 0..MaxHashByte] :
            /\ b.opus_start \in OpusStarts(b.len)
            /\ (b.b0_4 # "other" => b.len >= 4)
            /\ (b.b8_12 # "other" => b.len >= 12)
            /\ (b.ftyp20 => b.len >= 8)
            \* 'OpusHead' at position 0 occupies bytes[0:8]
            /\ (b.opus_start = 0 => b.b0_4 = "other")
            \* the signature bytes and 'OpusHead' do not overlap
            /\ (b.opus_start > 0 /\ b.b8_12 = "WAVE" => b.opus_start >= 12)}

----------------------------------------------------------------------------
(* AudioPlausibilityGate: VoiceProcessor._validate_audio_data *)

\* faulty variant: the 2000-byte boundary taken as 'at most' instead of 'below'
ValidateAudioData_off_by_one(n) ==
    IF n = 0 THEN [is_valid |-> FALSE, size |-> n, error |-> "Empty audio data",
                   likely_has_speech |-> FALSE]
    ELSE IF n < WavHeaderMin
         THEN [is_valid |-> FALSE, size |-> n, error |-> "Audio too small",
               likely_has_speech |-> FALSE]
    ELSE IF n < VerySmallSize
         THEN [is_valid |-> TRUE, size |-> n, error |-> "Audio very small",
               likely_has_speech |-> FALSE]
    ELSE IF n <= SmallSize
         THEN [is_valid |-> TRUE, size |-> n, error |-> "Audio small",
               likely_has_speech |-> FALSE]
    ELSE [is_valid |-> TRUE, size |-> n, error |-> "None", likely_has_speech |-> TRUE]

ValidateAudioData(n) ==
    IF n = 0 THEN [is_valid |-> FALSE, size |-> n, error |-> "Empty audio data",
                   likely_has_speech |-> FALSE]
    ELSE IF n < WavHeaderMin
         THEN [is_valid |-> FALSE, size |-> n, error |-> "Audio too small",
               likely_has_speech |-> FALSE]
    ELSE IF n < VerySmallSize
         THEN [is_valid |-> TRUE, size |-> n, error |-> "Audio very small",
               likely_has_speech |-> FALSE]
    ELSE IF n < SmallSize
         THEN [is_valid |-> TRUE, size |-> n, error |-> "Audio small",
               likely_has_speech |-> FALSE]
    ELSE [is_valid |-> TRUE, size |-> n, error |-> "None", likely_has_speech |-> TRUE]

NoValidation == [is_valid |-> FALSE, size |-> 0, error |-> "unset", likely_has_speech |-> FALSE]

(* FormatSniffer: VoiceProcessor._analyze_audio_format *)

\* faulty variant: the 'ftyp' test is made ahead of the EBML test
AnalyzeAudioFormat_ftyp_before_ebml(b) ==
    IF b.len < FormatMinSize
    THEN [format |-> "unknown", is_valid |-> FALSE, needs_conversion |-> FALSE]
    ELSE IF b.b0_4 = "RIFF" /\ b.b8_12 = "WAVE"
    THEN [format |-> "wav", is_valid |-> TRUE, needs_conversion |-> FALSE]
    ELSE IF b.ftyp20
    THEN [format |-> "mp4", is_valid |-> FALSE, needs_conversion |-> TRUE]
    ELSE IF b.b0_4 = "EBML"
    THEN [format |-> "webm", is_valid |-> FALSE, needs_conversion |-> TRUE]
    ELSE IF b.b0_4 = "OggS"
    THEN [format |-> "ogg", is_valid |-> FALSE, needs_conversion |-> TRUE]
    ELSE [format |-> "unknown", is_valid |-> FALSE, needs_conversion |-> FALSE]

\* faulty variant: the 'ftyp' test is made ahead of the RIFF/WAVE test
AnalyzeAudioFormat_ftyp_before_wav(b) ==
    IF b.len < FormatMinSize
    THEN [format |-> "unknown", is_valid |-> FALSE, needs_conversion |-> FALSE]
    ELSE IF b.ftyp20
    THEN [format |-> "mp4", is_valid |-> FALSE, needs_conversion |-> TRUE]
    ELSE IF b.b0_4 = "RIFF" /\ b.b8_12 = "WAVE"
    THEN [format |-> "wav", is_valid |-> TRUE, needs_conversion |-> FALSE]
    ELSE IF b.b0_4 = "EBML"
    THEN [format |-> "webm", is_valid |-> FALSE, needs_conversion |-> TRUE]
    ELSE IF b.b0_4 = "OggS"
    THEN [format |-> "ogg", is_valid |-> FALSE, needs_conversion |-> TRUE]
    ELSE [format |-> "unknown", is_valid |-> FALSE, needs_conversion |-> FALSE]

\* lines 88-121: the tests are made in this order, first match wins
AnalyzeAudioFormat(b) ==
    IF b.len < FormatMinSize
    THEN [format |-> "unknown", is_valid |-> FALSE, needs_conversion |-> FALSE]
    ELSE IF b.b0_4 = "RIFF" /\ b.b8_12 = "WAVE"
    THEN [format |-> "wav", is_valid |-> TRUE, needs_conversion |-> FALSE]
    ELSE IF b.b0_4 = "EBML"
    THEN [format |-> "webm", is_valid |-> FALSE, needs_conversion |-> TRUE]
    ELSE IF b.ftyp20
    THEN [format |-> "mp4", is_valid |-> FALSE, needs_conversion |-> TRUE]
    ELSE IF b.b0_4 = "OggS"
    THEN [format |-> "ogg", is_valid |-> FALSE, needs_conversion |-> TRUE]
    ELSE [format |-> "unknown", is_valid |-> FALSE, needs_conversion |-> FALSE]

NoFormat == [format |-> "unset", is_valid |-> FALSE, needs_conversion |-> FALSE]

----------------------------------------------------------------------------
(* ConversionStrategies.  The conversion library is an external            *)
(* collaborator: its outcome o is an input, [kind, len].                   *)

ConvLens == {0, MinConverted - 1, MinConverted, MinConverted + 1, BigWav}
LibOutcomes == {[kind |-> "exception", len |-> 0]} \cup
               {[kind |-> "bytes", len |-> n] : n \in ConvLens}
EnhancedOutcomes == LibOutcomes \cup {[kind |-> "short_segment", len |-> 0]}

\* _convert_webm_to_wav: the exported bytes, None on any exception
ConvertWebmToWav(o) == IF o.kind = "bytes" THEN Some(o.len) ELSE None

\* _convert_webm_enhanced: None as well for a segment under 100 ms
ConvertWebmEnhanced(o) == IF o.kind = "bytes" THEN Some(o.len) ELSE None

\* _convert_container_format_to_wav
ConvertContainerFormatToWav(o) == IF o.kind = "bytes" THEN Some(o.len) ELSE None

\* _create_wav_from_raw_pcm: a 44-byte header followed by the data
CreateWavFromRawPcm(n) == WavHeaderSize + n

\* the configs of _try_raw_pcm_variants: every one is mono, 16 bit
PcmRates == <<16000, 44100, 48000, 22050, 8000>>
PcmBytesPerSample == 2

RECURSIVE RawPcmVariantFrom(_, _)
RawPcmVariantFrom(n, i) ==
    IF i > Len(PcmRates) THEN None
    ELSE LET trimmed == n - (n % PcmBytesPerSample)
             wav == CreateWavFromRawPcm(trimmed)
         IN  IF trimmed < PcmBytesPerSample * PcmMinSamples THEN RawPcmVariantFrom(n, i + 1)
             ELSE IF wav > PcmMinWav THEN Some(wav)
             ELSE RawPcmVariantFrom(n, i + 1)

\* _try_raw_pcm_variants: the WAV of the first config that yields one
TryRawPcmVariants(n) == RawPcmVariantFrom(n, 1)

\* the outcomes the strategy's conversion step can have
ConvOutcomes(name) ==
    IF name = "webm_enhanced" THEN EnhancedOutcomes
    ELSE IF name \in {"webm_standard", "webm_quick", "mp4_converted", "ogg_converted"}
    THEN LibOutcomes
    ELSE {[kind |-> "bytes", len |-> 0]}    \* no library involved

\* faulty variant: the WAV bytes are wrapped in a new header before recognition
MethodFunc_wav_rewrapped(name, b, o) ==
    CASE name = "webm_enhanced" -> ConvertWebmEnhanced(o)
      [] name = "webm_standard" -> ConvertWebmToWav(o)
      [] name \in {"mp4_converted", "ogg_converted"} -> ConvertContainerFormatToWav(o)
      [] name = "original_wav" -> Some(b.len + WavHeaderSize)
      [] name = "raw_pcm_fallback" -> TryRawPcmVariants(b.len)

\* method_func() of a conversion-based strategy (lines 192-208)
MethodFunc(name, b, o) ==
    CASE name = "webm_enhanced" -> ConvertWebmEnhanced(o)
      [] name = "webm_standard" -> ConvertWebmToWav(o)
      [] name \in {"mp4_converted", "ogg_converted"} -> ConvertContainerFormatToWav(o)
      [] name = "original_wav" -> Some(b.len)
      [] name = "raw_pcm_fallback" -> TryRawPcmVariants(b.len)

\* faulty variant: the raw-PCM fallback is appended above 2000 bytes only
BuildRecognitionMethods_raw_pcm_over_2000(f, n) ==
    (IF f.format = "webm" THEN <<"direct_webm", "webm_enhanced", "webm_standard">>
     ELSE IF f.needs_conversion /\ f.format \in {"mp4", "ogg"}
          THEN <<IF f.format = "mp4" THEN "mp4_converted" ELSE "ogg_converted">>
     ELSE IF f.is_valid /\ f.format = "wav" THEN <<"original_wav">>
     ELSE << >>)
    \o (IF n > SmallSize THEN <<"raw_pcm_fallback">> ELSE << >>)

\* faulty variant: the standard conversion is listed ahead of the enhanced one
BuildRecognitionMethods_standard_first(f, n) ==
    (IF f.format = "webm" THEN <<"direct_webm", "webm_standard", "webm_enhanced">>
     ELSE IF f.needs_conversion /\ f.format \in {"mp4", "ogg"}
          THEN <<IF f.format = "mp4" THEN "mp4_converted" ELSE "ogg_converted">>
     ELSE IF f.is_valid /\ f.format = "wav" THEN <<"original_wav">>
     ELSE << >>)
    \o (IF n > RawPcmMinSize THEN <<"raw_pcm_fallback">> ELSE << >>)

\* recognition_methods as built at lines 182-208
BuildRecognitionMethods(f, n) ==
    (IF f.format = "webm" THEN <<"direct_webm", "webm_enhanced", "webm_standard">>
     ELSE IF f.needs_conversion /\ f.format \in {"mp4", "ogg"}
          THEN <<IF f.format = "mp4" THEN "mp4_converted" ELSE "ogg_converted">>
     ELSE IF f.is_valid /\ f.format = "wav" THEN <<"original_wav">>
     ELSE << >>)
    \o (IF n > RawPcmMinSize THEN <<"raw_pcm_fallback">> ELSE << >>)

----------------------------------------------------------------------------
(* The recognition backends: external collaborators.  A backend call       *)
(* either returns a text or raises.                                        *)

BackendTexts == {<< >>, <<" ">>, <<"h", "i">>, <<" ", "h", "i", " ">>}
BackendOutcomes == {[kind |-> "text", text |-> t] : t \in BackendTexts} \cup
                   {[kind |-> k, text |-> << >>] :
                        k \in {"UnknownValueError", "RequestError", "Exception"}}

\* recognition_services, in the order they are tried (lines 697-710, 268-272)
RecognitionServices == <<"google", "google_cloud", "sphinx">>

\* faulty variant: the text is returned with its surrounding whitespace
ServiceResult_unstripped(o) ==
    IF o.kind = "text" /\ o.text # << >> /\ Strip(o.text) # << >> THEN Some(o.text)
    ELSE None

\* what one backend call contributes in _try_speech_recognition (lines 714-725):
\* the stripped text when it is not blank, None otherwise (try the next service)
ServiceResult(o) ==
    IF o.kind = "text" /\ o.text # << >> /\ Strip(o.text) # << >> THEN Some(Strip(o.text))
    ELSE None

\* ... and in _try_direct_webm_recognition (lines 283-290): the text as it is
DirectServiceResult(o) ==
    IF o.kind = "text" /\ o.text # << >> THEN Some(o.text) ELSE None

NoRec == [caller |-> "none", method |-> "", wav_len |-> 0, svc |-> 0]

(* _try_mock_recognition *)
MockResponsesSmall == << <<"m", "1">>, <<"m", "2">>, <<"m", "3">>, <<"m", "4">> >>
MockResponsesLarge == << <<"M", "1">>, <<"M", "2">>, <<"M", "3">>, <<"M", "4">>, <<"M", "5">> >>

\* faulty variant: the phrase is picked by the length of the blob, not by its hash
TryMockRecognition_by_length(b) ==
    IF b.len < MockMinSize THEN None
    ELSE LET mock_responses == IF b.len < BytesPerKb THEN MockResponsesSmall
                               ELSE MockResponsesLarge
         IN  Some(mock_responses[(b.len % Len(mock_responses)) + 1])

\* faulty variant: no mock phrase for a blob under one kilobyte
TryMockRecognition_none_under_1kb(b) ==
    IF b.len < BytesPerKb THEN None
    ELSE Some(MockResponsesLarge[(b.md5_0 % Len(MockResponsesLarge)) + 1])

\* lines 891-929: None under 200 bytes, otherwise the phrase of the list for the
\* blob's size that the first byte of its md5 digest selects
TryMockRecognition(b) ==
    IF b.len < MockMinSize THEN None
    ELSE LET mock_responses == IF b.len < BytesPerKb THEN MockResponsesSmall
                               ELSE MockResponsesLarge
         IN  Some(mock_responses[(b.md5_0 % Len(mock_responses)) + 1])

----------------------------------------------------------------------------
(* RecognitionStrategyChain: VoiceProcessor.speech_to_text *)

Event(kind, name) == <<kind, name>>
Logged(kind) == {k \in 1..Len(vp_log) : vp_log[k][1] = kind}

\* faulty variant: the speech heuristic is consulted before the gate's verdict
EntryBranch_speech_first(v, n) ==
    IF ~v.likely_has_speech /\ n < QuickPathSize THEN "quick"
    ELSE IF ~v.is_valid THEN "reject"
    ELSE IF n < EarlyExitSize THEN "early_exit"
    ELSE "full"

\* faulty variant: the small-blob path is taken under 1000 bytes only
EntryBranch_quick_under_1000(v, n) ==
    IF ~v.is_valid THEN "reject"
    ELSE IF n < EarlyExitSize THEN "early_exit"
    ELSE IF ~v.likely_has_speech /\ n < VerySmallSize THEN "quick"
    ELSE "full"

\* faulty variant: no early exit for valid blobs under 500 bytes
EntryBranch_no_early_exit(v, n) ==
    IF ~v.is_valid THEN "reject"
    ELSE IF ~v.likely_has_speech /\ n < QuickPathSize THEN "quick"
    ELSE "full"

\* lines 128-142 and 177: which way speech_to_text goes after the gate
EntryBranch(v, n) ==
    IF ~v.is_valid THEN "reject"
    ELSE IF n < EarlyExitSize THEN "early_exit"
    ELSE IF ~v.likely_has_speech /\ n < QuickPathSize THEN "quick"
    ELSE "full"

\* the frame of speech_to_text at its entry
VoiceFrameInit ==
    /\ validation = NoValidation
    /\ format_info = NoFormat
    /\ recognition_methods = << >>
    /\ method_idx = 0
    /\ rate_idx = 0
    /\ converted_audio = None
    /\ rec = NoRec
    /\ last_result = None
    /\ backend_called = FALSE
    /\ vp_pc = "start"
    /\ vp_ret = None
    /\ vp_log = << >>
    /\ temp_files = {}

VoiceInit ==
    /\ audio_data \in Blobs
    /\ VoiceFrameInit

\* speech_to_text, lines 125-146 and 177-208: gate, early exits, format analysis and
\* construction of the strategy list
SpeechToText ==
    /\ vp_pc = "start"
    /\ LET v == ValidateAudioData(audio_data.len)
           branch == EntryBranch(v, audio_data.len)
           f == AnalyzeAudioFormat(audio_data)
       IN  /\ validation' = v
           /\ IF branch \in {"reject", "early_exit"}
              THEN /\ vp_pc' = "done"
                   /\ vp_ret' = None
                   /\ UNCHANGED <<format_info, recognition_methods, method_idx>>
              ELSE IF branch = "quick"
              THEN /\ vp_pc' = "quick"
                   /\ format_info' = f
                   /\ UNCHANGED <<vp_ret, recognition_methods, method_idx>>
              ELSE /\ vp_pc' = "loop"
                   /\ format_info' = f
                   /\ recognition_methods' = BuildRecognitionMethods(f, audio_data.len)
                   /\ method_idx' = 1
                   /\ UNCHANGED vp_ret
    /\ UNCHANGED <<routerVars, speechVars>>
    /\ UNCHANGED <<backend_called, audio_data, rate_idx, converted_audio, rec, last_result, vp_log,
                   temp_files>>

\* the temporary file a recognition step writes (lines 685-687, 263-265)
RecFile(caller) == IF caller = "direct" THEN "direct.webm" ELSE "recognition.wav"

\* the temporary files of _try_ffmpeg_extraction (lines 847-852)
FfmpegInputFile == "ffmpeg.webm"
FfmpegFiles == {FfmpegInputFile, "ffmpeg_ffmpeg.wav"}

\* a conversion writes its input to a temporary file and unlinks it in its finally
\* block, whatever the outcome (lines 632-674, 313-391, 460-489)
ConversionTempFiles(files) == (files \cup {"conversion_input"}) \ {"conversion_input"}

\* the call of _try_speech_recognition(method_name, audio) by one of its callers
CallRecognition(caller, method, n) ==
    /\ rec' = [caller |-> caller, method |-> method, wav_len |-> n, svc |-> 0]
    /\ vp_pc' = "rec_open"

\* faulty variant: every detected container format has a quick method
HasQuickMethod_any_container(format) ==
    format \in {"webm", "mp4", "ogg", "wav"}

\* line 149: only a blob detected as webm has a quick method
HasQuickMethod(format) ==
    format = "webm"

\* lines 148-158: the single quick method of the small-blob path, for webm only
QuickMethod ==
    /\ vp_pc = "quick"
    /\ IF HasQuickMethod(format_info.format)
       THEN \E o \in ConvOutcomes("webm_quick") :
              LET c == ConvertWebmToWav(o)
              IN  /\ converted_audio' = c
                  /\ temp_files' = ConversionTempFiles(temp_files)
                  /\ IF TruthyBytes(c) /\ c[1] > QuickMinConverted
                     THEN /\ CallRecognition("quick", "webm_quick", c[1])
                          /\ vp_log' = vp_log \o <<Event("convert", "webm_quick"),
                                                   Event("recognize", "webm_quick")>>
                     ELSE /\ vp_pc' = "alt"
                          /\ vp_log' = Append(vp_log, Event("convert", "webm_quick"))
                          /\ UNCHANGED rec
       ELSE /\ vp_pc' = "alt"
            /\ UNCHANGED <<converted_audio, rec, vp_log, temp_files>>
    /\ UNCHANGED <<routerVars, speechVars>>
    /\ UNCHANGED <<backend_called, audio_data, validation, format_info, recognition_methods, method_idx,
                   rate_idx, last_result, vp_ret>>

\* lines 211-234: one turn of the for loop over recognition_methods, up to the call
\* of the recognition step; lines 236-237 once the list is exhausted
ChainStep ==
    /\ vp_pc = "loop"
    /\ IF method_idx > Len(recognition_methods)
       THEN /\ vp_pc' = "alt"
            /\ converted_audio' = None
            /\ UNCHANGED <<rec, method_idx, vp_log, temp_files>>
       ELSE LET name == recognition_methods[method_idx]
                started_ev == Event("strategy", name)
            IN  IF name = "direct_webm"
                THEN /\ CallRecognition("direct", name, audio_data.len)
                     /\ vp_log' = vp_log \o <<started_ev, Event("direct", name)>>
                     /\ UNCHANGED <<converted_audio, method_idx, temp_files>>
                ELSE \E o \in ConvOutcomes(name) :
                       LET c == MethodFunc(name, audio_data, o)
                           conv_ev == IF name = "original_wav" THEN << >>
                                      ELSE <<Event("convert", name)>>
                       IN  /\ converted_audio' = c
                           /\ temp_files' = IF name \in {"original_wav", "raw_pcm_fallback"}
                                             THEN temp_files
                                             ELSE ConversionTempFiles(temp_files)
                           /\ IF TruthyBytes(c) /\ c[1] > MinConverted
                              THEN /\ CallRecognition("loop", name, c[1])
                                   /\ vp_log' = vp_log \o <<started_ev>> \o conv_ev
                                                  \o <<Event("recognize", name)>>
                                   /\ UNCHANGED method_idx
                              ELSE /\ method_idx' = method_idx + 1
                                   /\ vp_log' = vp_log \o <<started_ev>> \o conv_ev
                                   /\ UNCHANGED <<rec, vp_pc>>
    /\ UNCHANGED <<routerVars, speechVars>>
    /\ UNCHANGED <<backend_called, audio_data, validation, format_info, recognition_methods, rate_idx,
                   last_result, vp_ret>>

\* faulty variant: an empty quick attempt goes straight to the mock fallback
AfterRecognition_quick_skips_alternative(caller, result) ==
    IF TruthyText(result) THEN "done"
    ELSE CASE caller = "quick" -> "mock"
           [] caller \in {"loop", "direct"} -> "loop"
           [] caller = "rawx" -> "rawx"
           [] caller = "ffmpeg" -> "mock"

\* faulty variant: a transcript does not end the chain
AfterRecognition_ignores_result(caller, result) ==
    CASE caller = "quick" -> "alt"
      [] caller \in {"loop", "direct"} -> "loop"
      [] caller = "rawx" -> "rawx"
      [] caller = "ffmpeg" -> "mock"

\* faulty variant: 'return result' in place of 'if result: return result'
AfterRecognition_returns_any(caller, result) == "done"

\* what the caller of a recognition step does with its result: 'if result: return
\* result' (lines 154-156, 218-220, 226-228, 788-789 with 163-165/239-241, 823-825,
\* 882 with 797-798), otherwise go on with what follows the call
AfterRecognition(caller, result) ==
    IF TruthyText(result) THEN "done"
    ELSE CASE caller = "quick" -> "alt"
           [] caller \in {"loop", "direct"} -> "loop"
           [] caller = "rawx" -> "rawx"
           [] caller = "ffmpeg" -> "mock"

\* the recognition step returns `result` to its caller
FinishRecognition(result) ==
    LET next == AfterRecognition(rec.caller, result)
    IN  /\ last_result' = result
        /\ vp_pc' = next
        /\ vp_ret' = IF next = "done" THEN result ELSE vp_ret
        /\ method_idx' = IF next = "loop" THEN method_idx + 1 ELSE method_idx
        /\ rate_idx' = IF next = "rawx" THEN rate_idx + 1 ELSE rate_idx
        /\ converted_audio' = IF next \in {"alt", "mock"} THEN None ELSE converted_audio
        /\ rec' = NoRec
        \* the finally block (lines 733-739, 298-303), then the caller's cleanup
        \* (lines 876-880)
        /\ temp_files' = (temp_files \ {RecFile(rec.caller)})
                          \ (IF rec.caller = "ffmpeg" THEN FfmpegFiles ELSE {})
        /\ vp_log' = vp_log \o
                     (IF TruthyText(result) THEN <<Event("yield", rec.method)>> ELSE << >>)

\* _try_speech_recognition lines 680-694 (and _try_direct_webm_recognition lines
\* 258-279): write the temporary file and read it back through sr.AudioFile; any
\* failure there is caught (lines 729-731, 294-296) and the step returns None
RecOpen ==
    /\ vp_pc = "rec_open"
    /\ \E ok \in BOOLEAN :
         IF ok
         THEN /\ vp_pc' = "rec_svc"
              /\ rec' = [rec EXCEPT !.svc = 1]
              /\ temp_files' = temp_files \cup {RecFile(rec.caller)}
              /\ UNCHANGED <<last_result, vp_ret, method_idx, rate_idx, converted_audio, vp_log>>
         ELSE FinishRecognition(None)
    /\ UNCHANGED <<routerVars, speechVars>>
    /\ UNCHANGED <<backend_called, audio_data, validation, format_info, recognition_methods>>

\* lines 712-727 (282-292): one backend call of the for loop over recognition_services
RecService ==
    /\ vp_pc = "rec_svc"
    /\ \E o \in BackendOutcomes :
         LET r == IF rec.caller = "direct" THEN DirectServiceResult(o) ELSE ServiceResult(o)
         IN  IF r # None THEN FinishRecognition(r)
             ELSE IF rec.svc < Len(RecognitionServices)
             THEN /\ rec' = [rec EXCEPT !.svc = rec.svc + 1]
                  /\ UNCHANGED <<vp_pc, last_result, vp_ret, method_idx, rate_idx,
                                 converted_audio, vp_log, temp_files>>
             ELSE FinishRecognition(None)
    /\ backend_called' = TRUE
    /\ UNCHANGED <<audio_data, validation, format_info, recognition_methods>>
    /\ UNCHANGED <<routerVars, speechVars>>

\* audio_data[opus_start + 50:] (line 784)
ExtractedLen(b) == Max(0, b.len - (b.opus_start + OpusHeaderSkip))

\* _try_alternative_processing lines 773-796, up to the first call it makes
AlternativeProcessing ==
    /\ vp_pc = "alt"
    /\ vp_log' = Append(vp_log, Event("alternative", ""))
    /\ IF /\ audio_data.len > AltMinSize
          /\ audio_data.opus_start > 0
          /\ ExtractedLen(audio_data) > MinExtracted
       THEN /\ vp_pc' = "rawx"
            /\ rate_idx' = 1
       ELSE /\ vp_pc' = "ffmpeg"
            /\ UNCHANGED rate_idx
    /\ UNCHANGED <<routerVars, speechVars>>
    /\ UNCHANGED <<backend_called, audio_data, validation, format_info, recognition_methods, method_idx,
                   converted_audio, rec, last_result, vp_ret, temp_files>>

ExtractionRates == <<16000, 22050, 44100, 8000>>

\* _try_raw_audio_extraction lines 812-827: one turn of the loop over sample_rates
RawAudioExtraction ==
    /\ vp_pc = "rawx"
    /\ IF rate_idx > Len(ExtractionRates)
       THEN /\ vp_pc' = "ffmpeg"
            /\ UNCHANGED <<rate_idx, rec, vp_log, converted_audio>>
       ELSE LET wav == CreateWavFromRawPcm(ExtractedLen(audio_data))
            IN  IF wav > RawExtractMinWav
                THEN /\ CallRecognition("rawx", "raw_extracted", wav)
                     /\ converted_audio' = Some(wav)
                     /\ vp_log' = vp_log \o <<Event("convert", "raw_extracted"),
                                              Event("recognize", "raw_extracted")>>
                     /\ UNCHANGED rate_idx
                ELSE /\ rate_idx' = rate_idx + 1
                     /\ converted_audio' = Some(wav)
                     /\ vp_log' = Append(vp_log, Event("convert", "raw_extracted"))
                     /\ UNCHANGED <<vp_pc, rec>>
    /\ UNCHANGED <<routerVars, speechVars>>
    /\ UNCHANGED <<backend_called, audio_data, validation, format_info, recognition_methods, method_idx,
                   last_result, vp_ret, temp_files>>

\* what the ffmpeg command can do: it is not installed, something raises, it exits
\* non-zero, or it exits 0 and leaves a file of len bytes
FfmpegLens == {0, WavHeaderMin - 1, WavHeaderMin, BigWav}
FfmpegOutcomes == {[kind |-> k, len |-> 0] : k \in {"not_available", "exception", "nonzero"}}
                  \cup {[kind |-> "converted", len |-> n] : n \in FfmpegLens}

\* _try_ffmpeg_extraction lines 835-873, up to the call of the recognition step
FfmpegExtraction ==
    /\ vp_pc = "ffmpeg"
    /\ \E o \in FfmpegOutcomes :
         IF o.kind = "converted"
         THEN /\ CallRecognition("ffmpeg", "ffmpeg_converted", o.len)
              /\ converted_audio' = Some(o.len)
              /\ temp_files' = temp_files \cup FfmpegFiles
              /\ vp_log' = vp_log \o <<Event("convert", "ffmpeg_converted"),
                                       Event("recognize", "ffmpeg_converted")>>
         ELSE /\ vp_pc' = "mock"
              /\ converted_audio' = None
              \* lines 883-888: nothing is unlinked on these ways out
              /\ temp_files' = IF o.kind = "not_available" THEN temp_files
                                ELSE temp_files \cup {FfmpegInputFile}
              /\ vp_log' = IF o.kind = "not_available" THEN vp_log
                           ELSE Append(vp_log, Event("convert", "ffmpeg_converted"))
              /\ UNCHANGED rec
    /\ UNCHANGED <<routerVars, speechVars>>
    /\ UNCHANGED <<backend_called, audio_data, validation, format_info, recognition_methods, method_idx,
                   rate_idx, last_result, vp_ret>>

\* lines 167-175 and 243-250: the mock fallback and the final return
MockRecognition ==
    /\ vp_pc = "mock"
    /\ vp_log' = Append(vp_log, Event("mock", ""))
    /\ vp_ret' = TryMockRecognition(audio_data)
    /\ vp_pc' = "done"
    /\ UNCHANGED <<routerVars, speechVars>>
    /\ UNCHANGED <<backend_called, audio_data, validation, format_info, recognition_methods, method_idx,
                   rate_idx, converted_audio, rec, last_result, temp_files>>

VoiceNext ==
    \/ SpeechToText
    \/ QuickMethod
    \/ ChainStep
    \/ RecOpen
    \/ RecService
    \/ AlternativeProcessing
    \/ RawAudioExtraction
    \/ FfmpegExtraction
    \/ MockRecognition

----------------------------------------------------------------------------
(* HybridGenerationRouter: HybridLLMService.  A generate_response call is a *)
(* coroutine: it holds the event loop (running) from one await that        *)
(* suspends to the next.  requests.post in _generate_ollama_response is a  *)
(* blocking call, not an await.                                            *)

Calls == 1..MaxCalls

Apology == "I apologize, but I'm having trouble processing your request right now. Please try again."

(* Python str operations on TLA+ strings *)

\* sub in s
Contains(s, sub) ==
    \E i \in 1..(Len(s) - Len(sub) + 1) : SubSeq(s, i, i + Len(sub) - 1) = sub

\* s.endswith(suffix)
EndsWith(s, suffix) ==
    Len(s) >= Len(suffix) /\ SubSeq(s, Len(s) - Len(suffix) + 1, Len(s)) = suffix

\* s.find(sub), 1-based, for a sub that occurs in s
Find(s, sub) ==
    CHOOSE i \in 1..(Len(s) - Len(sub) + 1) :
        /\ SubSeq(s, i, i + Len(sub) - 1) = sub
        /\ \A j \in 1..(i - 1) : SubSeq(s, j, j + Len(sub) - 1) # sub

RECURSIVE Remove(_, _)
\* s.replace(old, ""): every non-overlapping occurrence, from the left
Remove(s, old) ==
    IF ~Contains(s, old) THEN s
    ELSE LET i == Find(s, old)
         IN  SubSeq(s, 1, i - 1) \o Remove(SubSeq(s, i + Len(old), Len(s)), old)

RECURSIVE StrLStrip(_)
StrLStrip(s) ==
    IF Len(s) > 0 /\ SubSeq(s, 1, 1) = " " THEN StrLStrip(SubSeq(s, 2, Len(s))) ELSE s

RECURSIVE StrRStrip(_)
StrRStrip(s) ==
    IF Len(s) > 0 /\ SubSeq(s, Len(s), Len(s)) = " "
    THEN StrRStrip(SubSeq(s, 1, Len(s) - 1)) ELSE s

\* s.strip()
StrStrip(s) == StrRStrip(StrLStrip(s))

UpperCase == "ABCDEFGHIJKLMNOPQRSTUVWXYZ"
LowerCase == "abcdefghijklmnopqrstuvwxyz"
LowerChar(c) ==
    IF \E i \in 1..Len(UpperCase) : SubSeq(UpperCase, i, i) = c
    THEN LET i == CHOOSE i \in 1..Len(UpperCase) : SubSeq(UpperCase, i, i) = c
         IN  SubSeq(LowerCase, i, i)
    ELSE c

\* sub in s.lower()
InLower(sub, s) ==
    \E i \in 1..(Len(s) - Len(sub) + 1) :
        \A j \in 1..Len(sub) :
            LowerChar(SubSeq(s, i + j - 1, i + j - 1)) = SubSeq(sub, j, j)

(* _clean_and_validate_response *)

MinResponseLen == 15
CanonicalFallback == "I can only provide information based on our available documentation. Please ask about topics covered in our materials."
GenericSupportPhrase == "I'm here to provide support based on our documentation"
TerminalEndings == {"?", ".", "!", ")", "\""}

\* lines 181-182: the replace chain and the strip
StripScaffolding(response) ==
    StrStrip(Remove(Remove(Remove(Remove(response, "Assistant:"), "AI:"),
                           "Response:"), "Your Response:"))

\* faulty variant: nothing is appended
EnsureTerminalPunctuation_never(r) == r

\* lines 196-198: 'Add period if needed'
EnsureTerminalPunctuation(r) ==
    IF \E e \in TerminalEndings : EndsWith(r, e) THEN r ELSE r \o "."

\* faulty variant: the length of the stripped text is not looked at
CleanAndValidateResponse_no_length_check(response) ==
    LET r == StripScaffolding(response)
    IN  IF Contains(r, GenericSupportPhrase) THEN CanonicalFallback
        ELSE EnsureTerminalPunctuation(r)

\* _clean_and_validate_response, lines 177-200
CleanAndValidateResponse(response) ==
    LET r == StripScaffolding(response)
    IN  IF Contains(r, GenericSupportPhrase) THEN CanonicalFallback
        ELSE IF Len(r) < MinResponseLen /\ ~InLower("documentation", r)
             THEN CanonicalFallback
        ELSE EnsureTerminalPunctuation(r)

ProbeOutcomes == {"status_200", "status_other", "timeout", "exception"}
OllamaOutcomes == {"status_200", "status_other", "timeout", "exception"}
\* texts a generation backend may answer with
LlmTexts == {"ok", " We offer two plans", "Response: We offer plans (a and b)"}
GeminiOutcomes == {[kind |-> "text", text |-> t] : t \in LlmTexts}
                  \cup {[kind |-> "exception", text |-> ""]}

\* generated_text: result.get("response", "").strip() (line 114),
\* response.text.strip() (line 163)
GeneratedText(t) == StrStrip(t)

\* faulty variant: a failed probe leaves the choice undetermined
CheckOllamaAvailability_unset(o) == IF o = "status_200" THEN "True" ELSE "None"

\* _check_ollama_availability, assigned to self.use_ollama at line 47
CheckOllamaAvailability(o) == IF o = "status_200" THEN "True" ELSE "False"

\* faulty variant: the failure of the local call is forgotten
DemotedChoice_unchanged == use_ollama

\* faulty variant: the failure of the local call re-arms the probe
DemotedChoice_unset == "None"

\* self.use_ollama = False at lines 58, 122 and 127
DemotedChoice == "False"

\* faulty variant: the remote failure is not caught
GeminiResponse_raises(o) ==
    IF o.kind = "text"
    THEN [raised |-> FALSE, text |-> CleanAndValidateResponse(GeneratedText(o.text))]
    ELSE [raised |-> TRUE, text |-> ""]

\* _generate_gemini_response lines 152-175: the cleaned text, or the apology when
\* anything raises
GeminiResponse(o) ==
    IF o.kind = "text"
    THEN [raised |-> FALSE, text |-> CleanAndValidateResponse(GeneratedText(o.text))]
    ELSE [raised |-> FALSE, text |-> Apology]

GenEvent(kind, c, what) == <<kind, c, what>>

RouterInit ==
    /\ use_ollama = "None"
    /\ running = 0
    /\ gen_pc = [c \in Calls |-> "idle"]
    /\ gen_via = [c \in Calls |-> ""]
    /\ gen_out = [c \in Calls |-> None]
    /\ gen_ret = [c \in Calls |-> None]
    /\ gen_raised = [c \in Calls |-> FALSE]
    /\ gen_log = << >>
    /\ started = 0

\* generate_response lines 41-47: entry, up to the await of the probe
GenerateResponse(c) ==
    /\ running = 0
    /\ gen_pc[c] = "idle"
    /\ c = started + 1
    /\ started' = c
    /\ IF use_ollama = "None"
       THEN /\ gen_pc' = [gen_pc EXCEPT ![c] = "await_probe"]
            /\ gen_log' = Append(gen_log, GenEvent("probe", c, ""))
            /\ running' = 0
       ELSE /\ gen_pc' = [gen_pc EXCEPT ![c] = "dispatch"]
            /\ running' = c
            /\ UNCHANGED gen_log
    /\ UNCHANGED <<use_ollama, gen_via, gen_out, gen_ret, gen_raised>>
    /\ UNCHANGED <<voiceVars, speechVars>>

\* calls made one after another: a call begins when no other is in progress
SequentialGenerateResponse(c) ==
    /\ \A d \in Calls : gen_pc[d] \in {"idle", "done"}
    /\ GenerateResponse(c)

\* lines 25-39 and 47: the probe completes and its result is stored
ProbeReturns(c) ==
    /\ running = 0
    /\ gen_pc[c] = "await_probe"
    /\ \E o \in ProbeOutcomes :
         /\ use_ollama' = CheckOllamaAvailability(o)
         /\ gen_log' = Append(gen_log, GenEvent("pin", c, CheckOllamaAvailability(o)))
    /\ gen_pc' = [gen_pc EXCEPT ![c] = "dispatch"]
    /\ running' = c
    /\ UNCHANGED <<gen_via, gen_out, gen_ret, gen_raised, started>>
    /\ UNCHANGED <<voiceVars, speechVars>>

\* lines 53-61: the branch on self.use_ollama
Dispatch(c) ==
    /\ running = c
    /\ gen_pc[c] = "dispatch"
    /\ IF use_ollama = "True"
       THEN /\ gen_pc' = [gen_pc EXCEPT ![c] = "local"]
            /\ UNCHANGED <<running, gen_via, gen_log>>
       ELSE /\ gen_pc' = [gen_pc EXCEPT ![c] = "await_remote"]
            /\ gen_via' = [gen_via EXCEPT ![c] = "line61"]
            /\ gen_log' = Append(gen_log, GenEvent("remote", c, "line61"))
            /\ running' = 0
    /\ UNCHANGED <<use_ollama, gen_out, gen_ret, gen_raised, started>>
    /\ UNCHANGED <<voiceVars, speechVars>>

\* the demotion and the hand-over to the remote backend (lines 57-59, 121-123, 126-128)
FallBackToGemini(c, via, events) ==
    /\ use_ollama' = DemotedChoice
    /\ gen_pc' = [gen_pc EXCEPT ![c] = "await_remote"]
    /\ gen_via' = [gen_via EXCEPT ![c] = via]
    /\ gen_log' = gen_log \o events \o
                  <<GenEvent("local_failed", c, via), GenEvent("pin", c, DemotedChoice),
                    GenEvent("remote", c, via)>>
    /\ running' = 0
    /\ UNCHANGED <<gen_out, gen_ret, gen_raised>>

\* _generate_ollama_response lines 63-128 with the handler at lines 56-59.
\* persona_ok: agent_persona['personality'] is a dict, so that line 78 does not raise
OllamaResponse(c) ==
    /\ running = c
    /\ gen_pc[c] = "local"
    /\ \E persona_ok \in BOOLEAN, o \in OllamaOutcomes :
         IF ~persona_ok
         THEN FallBackToGemini(c, "line59", << >>)
         ELSE IF o = "status_200"
         THEN \E t \in LlmTexts :
              /\ gen_out' = [gen_out EXCEPT ![c] = Some(GeneratedText(t))]
              /\ gen_ret' = [gen_ret EXCEPT ![c] =
                                Some(CleanAndValidateResponse(GeneratedText(t)))]
              /\ gen_pc' = [gen_pc EXCEPT ![c] = "done"]
              /\ gen_log' = Append(gen_log, GenEvent("local", c, o))
              /\ running' = 0
              /\ UNCHANGED <<use_ollama, gen_via, gen_raised>>
         ELSE FallBackToGemini(c, IF o = "status_other" THEN "line123" ELSE "line128",
                               <<GenEvent("local", c, o)>>)
    /\ UNCHANGED started
    /\ UNCHANGED <<voiceVars, speechVars>>

\* the awaited _generate_gemini_response completes; an exception it let through
\* would be caught at line 125 (call of line 123) or at line 56 (call of line 128)
GeminiReturns(c) ==
    /\ running = 0
    /\ gen_pc[c] = "await_remote"
    /\ \E o \in GeminiOutcomes :
         LET r == GeminiResponse(o)
         IN  IF ~r.raised
             THEN /\ gen_ret' = [gen_ret EXCEPT ![c] = Some(r.text)]
                  /\ gen_out' = IF o.kind = "text"
                                THEN [gen_out EXCEPT ![c] = Some(GeneratedText(o.text))]
                                ELSE gen_out
                  /\ gen_pc' = [gen_pc EXCEPT ![c] = "done"]
                  /\ gen_log' = Append(gen_log, GenEvent("remote_returned", c, o.kind))
                  /\ UNCHANGED <<use_ollama, gen_via, gen_raised, running>>
             ELSE IF gen_via[c] = "line123"
             THEN FallBackToGemini(c, "line128", <<GenEvent("remote_returned", c, o.kind)>>)
             ELSE IF gen_via[c] = "line128"
             THEN FallBackToGemini(c, "line59", <<GenEvent("remote_returned", c, o.kind)>>)
             ELSE /\ gen_raised' = [gen_raised EXCEPT ![c] = TRUE]
                  /\ gen_pc' = [gen_pc EXCEPT ![c] = "done"]
                  /\ gen_log' = Append(gen_log, GenEvent("remote_returned", c, o.kind))
                  /\ UNCHANGED <<use_ollama, gen_via, gen_out, gen_ret, running>>
    /\ UNCHANGED started
    /\ UNCHANGED <<voiceVars, speechVars>>

RouterNext ==
    \E c \in Calls :
        \/ SequentialGenerateResponse(c)
        \/ ProbeReturns(c)
        \/ Dispatch(c)
        \/ OllamaResponse(c)
        \/ GeminiReturns(c)

----------------------------------------------------------------------------
(* ConversationEngine.process_speech_input (conversation_engine.py): the   *)
(* speech entry point.  It runs speech_to_text, then either answers with a *)
(* failure result or generates a response through a fresh                  *)
(* HybridLLMService and has it spoken.                                     *)

NoResult == [success |-> FALSE, error |-> None, transcribed_text |-> None,
             response_text |-> "", audio_response |-> None]

\* process_speech_input has not been invoked
SpeechIdle ==
    /\ psi_pc = "idle"
    /\ transcribed_text = None
    /\ response_text = ""
    /\ psi_result = NoResult

\* validation["recommendation"] as set by _validate_audio_data (lines 61-82)
ValidationRecommendation(n) ==
    IF n = 0 THEN Some("Please record some audio first")
    ELSE IF n < WavHeaderMin
    THEN Some("The recording is extremely short. Please record for at least 1-2 seconds with clear speech.")
    ELSE IF n < VerySmallSize
    THEN Some("The recording seems to contain only silence or noise. Please check your microphone and speak clearly for at least 2-3 seconds.")
    ELSE IF n < SmallSize
    THEN Some("The recording is very short. Please speak for at least 2-3 seconds with clear speech.")
    ELSE None

\* validation["error"] (None when nothing is wrong with the length)
ValidationError(n) ==
    LET e == ValidateAudioData(n).error IN IF e = "None" THEN None ELSE Some(e)

ShortAudioSize == 1000

\* faulty variant: the validation's error is reported only for audio the gate rejects
SpeechFailure_error_only_when_invalid(n) ==
    [error |-> IF ValidateAudioData(n).is_valid THEN None ELSE ValidationError(n),
     response |-> IF ValidationRecommendation(n) # None THEN ValidationRecommendation(n)[1]
                  ELSE "I'm having trouble understanding your audio. Please try speaking more clearly or check your microphone settings."]

\* lines 203-215: error_message and fallback_response when nothing was transcribed
SpeechFailure(n) ==
    IF ValidationRecommendation(n) # None
    THEN [error |-> ValidationError(n), response |-> ValidationRecommendation(n)[1]]
    ELSE IF n < ShortAudioSize
    THEN [error |-> Some("The audio recording is too short or contains only silence."),
          response |-> "I didn't hear any speech in your recording. Please try again - make sure to speak clearly for at least 2-3 seconds, and check that your microphone is working."]
    ELSE [error |-> Some("Could not understand the audio content."),
          response |-> "I'm having trouble understanding your audio. Please try speaking more clearly or check your microphone settings."]

\* text_to_speech (voice_processor.py lines 544-592): the path of the audio file, the
\* path of the fallback audio, or None; it never raises
TtsOutcomes == {"saved", "fallback_saved", "failed"}
TextToSpeech(o) ==
    CASE o = "saved" -> Some("response.mp3")
      [] o = "fallback_saved" -> Some("fallback.mp3")
      [] o = "failed" -> None

\* the fixed answers of ConversationEngine.generate_response (lines 47, 74, 113)
AgentMissingText == "I'm sorry, I'm not able to help with that right now."
NoDocumentsText == "I don't have any documents loaded yet. Please upload some company documents first so I can help you."
EngineTroubleText == "I'm having trouble processing your request. Please try again."
EngineOutcomes == {"agent_missing", "no_documents", "exception", "llm"}

\* no HybridLLMService exists before line 93 of conversation_engine.py
NoService ==
    /\ use_ollama = "None"
    /\ running = 0
    /\ gen_pc = [c \in Calls |-> "no_service"]
    /\ gen_via = [c \in Calls |-> ""]
    /\ gen_out = [c \in Calls |-> None]
    /\ gen_ret = [c \in Calls |-> None]
    /\ gen_raised = [c \in Calls |-> FALSE]
    /\ gen_log = << >>
    /\ started = 0

\* the speech inputs: one blob per length and signature
SpeechBlobs == {b \in Blobs : b.md5_0 = 0 /\ ~b.ftyp20 /\ b.b0_4 # "OggS"
                               /\ b.opus_start \in {-1, OpusNear}}

SpeechInit ==
    /\ VoiceInit
    /\ audio_data \in SpeechBlobs
    /\ NoService
    /\ psi_pc = "speech_to_text"
    /\ transcribed_text = None
    /\ response_text = ""
    /\ psi_result = NoResult

\* lines 198-236: speech_to_text has returned.  Its frame is gone: only the blob,
\* the returned transcript and the files left on disk remain.
AfterSpeechToText ==
    /\ psi_pc = "speech_to_text"
    /\ vp_pc = "done"
    /\ vp_pc' = "returned"
    /\ transcribed_text' = vp_ret
    /\ validation' = NoValidation
    /\ format_info' = NoFormat
    /\ recognition_methods' = << >>
    /\ method_idx' = 0
    /\ rate_idx' = 0
    /\ converted_audio' = None
    /\ rec' = NoRec
    /\ last_result' = None
    /\ vp_log' = << >>
    /\ IF ~TruthyText(vp_ret)
       THEN \E o \in TtsOutcomes :
              LET f == SpeechFailure(audio_data.len)
              IN  /\ psi_result' = [success |-> FALSE, error |-> f.error,
                                    transcribed_text |-> None, response_text |-> f.response,
                                    audio_response |-> TextToSpeech(o)]
                  /\ response_text' = f.response
                  /\ psi_pc' = "returned"
       ELSE /\ psi_pc' = "generate"
            /\ UNCHANGED <<response_text, psi_result>>
    /\ UNCHANGED <<audio_data, backend_called, vp_ret, temp_files>>
    /\ UNCHANGED routerVars

\* ConversationEngine.generate_response lines 37-93: the answers that need no model,
\* or the construction of a fresh HybridLLMService
EngineGenerateResponse ==
    /\ psi_pc = "generate"
    /\ \E o \in EngineOutcomes :
         IF o = "llm"
         THEN /\ psi_pc' = "llm"
              /\ gen_pc' = [c \in Calls |-> "idle"]
              /\ UNCHANGED response_text
         ELSE /\ psi_pc' = "tts"
              /\ response_text' = CASE o = "agent_missing" -> AgentMissingText
                                     [] o = "no_documents" -> NoDocumentsText
                                     [] o = "exception" -> EngineTroubleText
              /\ UNCHANGED gen_pc
    /\ UNCHANGED <<use_ollama, running, gen_via, gen_out, gen_ret, gen_raised, gen_log, started>>
    /\ UNCHANGED <<transcribed_text, psi_result>>
    /\ UNCHANGED voiceVars

\* lines 103-113: llm_service.generate_response has returned, or raised into the
\* handler of ConversationEngine.generate_response
EngineReturns ==
    /\ psi_pc = "llm"
    /\ gen_pc[1] = "done"
    /\ response_text' = IF gen_raised[1] THEN EngineTroubleText ELSE gen_ret[1][1]
    /\ psi_pc' = "tts"
    /\ UNCHANGED <<transcribed_text, psi_result>>
    /\ UNCHANGED <<voiceVars, routerVars>>

\* lines 244-253: the response is spoken and the success result returned
SpeakResponse ==
    /\ psi_pc = "tts"
    /\ \E o \in TtsOutcomes :
         psi_result' = [success |-> TRUE, error |-> None,
                        transcribed_text |-> transcribed_text,
                        response_text |-> response_text,
                        audio_response |-> TextToSpeech(o)]
    /\ psi_pc' = "returned"
    /\ UNCHANGED <<transcribed_text, response_text>>
    /\ UNCHANGED <<voiceVars, routerVars>>

\* process_speech_input: speech_to_text, then the one generate_response call of the
\* fresh service
SpeechNext ==
    \/ SpeechToText
    \/ QuickMethod
    \/ ChainStep
    \/ RecOpen
    \/ RecService
    \/ AlternativeProcessing
    \/ RawAudioExtraction
    \/ FfmpegExtraction
    \/ MockRecognition
    \/ AfterSpeechToText
    \/ EngineGenerateResponse
    \/ GenerateResponse(1)
    \/ ProbeReturns(1)
    \/ Dispatch(1)
    \/ OllamaResponse(1)
    \/ GeminiReturns(1)
    \/ EngineReturns
    \/ SpeakResponse

----------------------------------------------------------------------------
(* Specifications *)

\* the blob the voice processor holds while the router is studied
IdleBlob == [len |-> 0, b0_4 |-> "other", b8_12 |-> "other", ftyp20 |-> FALSE,
             opus_start |-> -1, md5_0 |-> 0]

Init == VoiceInit /\ RouterInit /\ SpeechIdle
Next == VoiceNext

\* one invocation of speech_to_text on any blob
Spec == Init /\ [][Next]_vars

\* the gate and the entry of speech_to_text applied to a blob of every length
GateBlobs == {[IdleBlob EXCEPT !.len = n] : n \in 0..MaxBlobLen}
InitGate ==
    /\ audio_data \in GateBlobs
    /\ validation = NoValidation
    /\ format_info = NoFormat
    /\ recognition_methods = << >>
    /\ method_idx = 0
    /\ rate_idx = 0
    /\ converted_audio = None
    /\ rec = NoRec
    /\ last_result = None
    /\ backend_called = FALSE
    /\ vp_pc = "start"
    /\ vp_ret = None
    /\ vp_log = << >>
    /\ temp_files = {}
    /\ RouterInit
    /\ SpeechIdle
GateSpec == InitGate /\ [][SpeechToText]_vars

InitRouter == VoiceInit /\ audio_data = IdleBlob /\ RouterInit /\ SpeechIdle
NextRouter == RouterNext

\* generate_response calls made one after another on one HybridLLMService
RouterSpec == InitRouter /\ [][NextRouter]_vars

\* _analyze_audio_format called on its own on any blob
Classify ==
    /\ vp_pc = "start"
    /\ format_info' = AnalyzeAudioFormat(audio_data)
    /\ vp_pc' = "classified"
    /\ UNCHANGED <<audio_data, validation, recognition_methods, method_idx, rate_idx,
                   converted_audio, rec, last_result, backend_called, vp_ret, vp_log,
                   temp_files>>
    /\ UNCHANGED <<routerVars, speechVars>>

ClassifySpec == Init /\ [][Classify]_vars

\* the responses _clean_and_validate_response is applied to: scaffolding or not, a
\* body whose length is on either side of MinResponseLen, with or without an ending
ResponsePrefixes == {"", "Assistant:", "AI: ", "Response:", "Your Response: ", " "}
ResponseBodies == {"", "ok", "We have plans", "We have a plan", "We have 2 plans",
                   "We offer two plans", "documentation", "See Documentation", "DOCS",
                   "Ask the AI: it knows", GenericSupportPhrase}
ResponseSuffixes == {"", ".", "?", "!", ")", "\"", " ", ". How can I help you?"}
ResponseTexts == {p \o b \o x : p \in ResponsePrefixes, b \in ResponseBodies,
                                 x \in ResponseSuffixes}

\* _clean_and_validate_response called on its own on any response
CleanResponse ==
    /\ gen_pc[1] = "idle"
    /\ \E t \in ResponseTexts :
         /\ gen_out' = [gen_out EXCEPT ![1] = Some(t)]
         /\ gen_ret' = [gen_ret EXCEPT ![1] = Some(CleanAndValidateResponse(t))]
    /\ gen_pc' = [gen_pc EXCEPT ![1] = "cleaned"]
    /\ UNCHANGED <<use_ollama, running, gen_via, gen_raised, gen_log, started>>
    /\ UNCHANGED <<voiceVars, speechVars>>

CleanSpec == InitRouter /\ [][CleanResponse]_vars

\* Scenario B: speech_to_text on 1500-byte blobs without any signature, one for
\* every value of the first byte of the md5 digest
MaxDigestByte == 255
ScenarioBBlobs == {[len |-> 1500, b0_4 |-> "other", b8_12 |-> m, ftyp20 |-> FALSE,
                    opus_start |-> -1, md5_0 |-> h] : m \in Magic8, h \in 0..MaxDigestByte}
InitScenarioB ==
    /\ audio_data \in ScenarioBBlobs
    /\ VoiceFrameInit
    /\ RouterInit
    /\ SpeechIdle
\* the steps of the small-blob path (lines 139-175) for a blob that is not webm and
\* holds no 'OpusHead'
NextScenarioB ==
    \/ SpeechToText
    \/ QuickMethod
    \/ AlternativeProcessing
    \/ FfmpegExtraction
    \/ RecOpen
    \/ RecService
    \/ MockRecognition
ScenarioBSpec == InitScenarioB /\ [][NextScenarioB]_vars

\* one invocation of process_speech_input on any speech input
SpeechInputSpec == SpeechInit /\ [][SpeechNext]_vars

\* generate_response calls interleaved on one HybridLLMService: a call may begin
\* while others are suspended at an await
NextConcurrent ==
    \E c \in 1..MaxInterleaved :
        \/ GenerateResponse(c)
        \/ ProbeReturns(c)
        \/ Dispatch(c)
        \/ OllamaResponse(c)
        \/ GeminiReturns(c)

ConcurrentSpec == InitRouter /\ [][NextConcurrent]_vars

----------------------------------------------------------------------------
(* Properties *)

GenLogged(kind, c) == {k \in 1..Len(gen_log) : gen_log[k][1] = kind /\ gen_log[k][2] = c}
GenLoggedAny(kind) == {k \in 1..Len(gen_log) : gen_log[k][1] = kind}

\* C1: a blob below 44 bytes is turned away by the gate before any expensive step:
\* no conversion, no recognition step, no backend call, no alternative extraction and
\* no mock fallback is ever executed for it, and speech_to_text returns None.
C1_GateBeforeExpensiveSteps ==
    audio_data.len < 44 =>
        /\ vp_log = << >>
        /\ ~backend_called
        /\ rec = NoRec
        /\ converted_audio = None
        /\ vp_pc \in {"start", "done"}
        /\ vp_ret = None
        /\ (vp_pc = "done" => ~validation.is_valid)

C1_Witness ==
    /\ vp_pc = "done"
    /\ audio_data.len = 43
    /\ validation.error = "Audio too small"
    /\ vp_ret = None

\* C2: the gate's verdict follows the length thresholds, first match winning:
\* 0 and 1..43 are invalid, 44..999 and 1000..1999 are valid without likely speech,
\* 2000 and above is valid with likely speech.
C2_GateThresholds ==
    validation # NoValidation =>
        LET n == audio_data.len
        IN  /\ validation.size = n
            /\ (n = 0 => ~validation.is_valid /\ validation.error = "Empty audio data")
            /\ (n >= 1 /\ n <= 43 => ~validation.is_valid /\ validation.error = "Audio too small")
            /\ (n >= 44 /\ n <= 999 =>
                    /\ validation.is_valid /\ ~validation.likely_has_speech
                    /\ validation.error = "Audio very small")
            /\ (n >= 1000 /\ n <= 1999 =>
                    /\ validation.is_valid /\ ~validation.likely_has_speech
                    /\ validation.error = "Audio small")
            /\ (n >= 2000 => validation.is_valid /\ validation.likely_has_speech)

C2_Witness ==
    /\ audio_data.len = 2000
    /\ validation.is_valid
    /\ validation.likely_has_speech

\* C3: over calls made one after another, self.use_ollama only moves unset -> local,
\* unset -> remote or local -> remote; it never returns to unset and never goes from
\* remote to local.
C3_ChoiceOnlyMovesForward ==
    [][/\ (use_ollama # "None" => use_ollama' # "None")
       /\ (use_ollama = "False" => use_ollama' = "False")]_vars

C3_Witness ==
    /\ use_ollama = "False"
    /\ \E k \in GenLogged("pin", 1) : gen_log[k][3] = "True"
    /\ gen_pc[2] = "done"

\* C4: over calls made one after another, the probe runs exactly once, in the first
\* call; once the choice is remote, no later step runs the probe or invokes the local
\* backend.
C4_ProbeOnceNeverAfterRemote ==
    /\ Cardinality(GenLoggedAny("probe")) <= 1
    /\ GenLoggedAny("probe") = GenLogged("probe", 1)
    /\ (started >= 1 => Cardinality(GenLoggedAny("probe")) = 1)
    /\ \A k \in GenLoggedAny("pin") :
         gen_log[k][3] = "False" =>
            \A j \in (k + 1)..Len(gen_log) : gen_log[j][1] \notin {"probe", "local"}
    /\ (use_ollama = "False" => \A c \in Calls : gen_pc[c] \notin {"await_probe", "local"})

C4_Witness ==
    /\ gen_pc[3] = "done"
    /\ use_ollama = "False"
    /\ Cardinality(GenLoggedAny("probe")) = 1
    /\ \E k \in GenLogged("local_failed", 1) : TRUE

\* C5: when the choice is local and the local generation fails (exception, timeout,
\* non-200 status), the same call sets the choice to remote for good, invokes the
\* remote backend exactly once and returns what the remote step produced, without
\* raising.
C5_LocalFailureFallsBackOnce ==
    \A c \in Calls :
        GenLogged("local_failed", c) # {} =>
            /\ use_ollama = "False"
            /\ Cardinality(GenLogged("local_failed", c)) = 1
            /\ Cardinality(GenLogged("remote", c)) = 1
            /\ \A k \in GenLogged("local_failed", c) :
                 /\ gen_log[k + 1] = <<"pin", c, "False">>
                 /\ gen_log[k + 2][1] = "remote" /\ gen_log[k + 2][2] = c
            /\ ~gen_raised[c]
            /\ gen_pc[c] \in {"await_remote", "done"}
            /\ (gen_pc[c] = "done" =>
                  /\ GenLogged("remote_returned", c) # {}
                  /\ gen_ret[c] = IF gen_out[c] = None THEN Some(Apology)
                                  ELSE Some(CleanAndValidateResponse(gen_out[c][1])))

C5_Witness ==
    \E c \in Calls :
        /\ \E k \in GenLogged("local", c) : gen_log[k][3] = "timeout"
        /\ GenLogged("local_failed", c) # {}
        /\ gen_pc[c] = "done"
        /\ gen_out[c] # None
        /\ gen_ret[c] # Some(Apology)

\* C6: generate_response never raises: whatever the probe, the local backend and the
\* remote backend do, it returns a text, and when the remote backend fails that text
\* is the fixed apology.
C6_NeverRaisesApologyOnRemoteFailure ==
    \A c \in Calls :
        /\ ~gen_raised[c]
        /\ (gen_pc[c] = "done" =>
              /\ gen_ret[c] \in {Some(CleanAndValidateResponse(GeneratedText(t))) : t \in LlmTexts}
                                \cup {Some(Apology)}
              /\ (\E k \in GenLogged("remote_returned", c) : gen_log[k][3] = "exception")
                    <=> gen_ret[c] = Some(Apology))
        /\ (gen_pc[c] # "done" => gen_ret[c] = None)

C6_Witness ==
    \E c \in Calls :
        /\ gen_pc[c] = "done"
        /\ gen_ret[c] = Some(Apology)
        /\ GenLogged("local_failed", c) # {}

\* the names of the strategies begun so far, in the order they were begun
StrategiesBegun == SelectSeq(vp_log, LAMBDA e : e[1] = "strategy")

\* C7: the strategies run one at a time in list order, and as soon as one yields a
\* non-empty transcript that transcript is returned: no later strategy, alternative
\* extraction or mock fallback is executed.
C7_ShortCircuitOnFirstTranscript ==
    /\ Len(StrategiesBegun) <= Len(recognition_methods)
    /\ \A i \in 1..Len(StrategiesBegun) : StrategiesBegun[i][2] = recognition_methods[i]
    /\ \A k \in Logged("yield") :
         /\ k = Len(vp_log)
         /\ vp_pc = "done"
         /\ TruthyText(vp_ret)
         /\ vp_ret = last_result
    /\ (vp_pc \in {"rec_open", "rec_svc"} /\ rec.caller \in {"loop", "direct"} =>
            /\ Len(StrategiesBegun) = method_idx
            /\ rec.method = recognition_methods[method_idx])

C7_Witness ==
    /\ vp_pc = "done"
    /\ Len(vp_log) > 0
    /\ vp_log[Len(vp_log)] = Event("yield", "webm_enhanced")
    /\ Len(recognition_methods) = 4
    /\ Len(StrategiesBegun) = 2
    /\ Logged("alternative") = {}
    /\ Logged("mock") = {}

\* C8: whenever speech_to_text returns a mock transcript, at least one real
\* recognition-backend call was made earlier in the same invocation.
C8_MockOnlyAfterRealAttempt ==
    (vp_pc = "done" /\ Logged("mock") # {} /\ TruthyText(vp_ret)) => backend_called

\* C9: the recognition step is never invoked on converted output shorter than 44
\* bytes, on any path that converts and then recognizes (quick path, the strategies
\* of the full list, raw extraction, ffmpeg extraction).
C9_NoRecognitionUnder44Bytes ==
    (vp_pc \in {"rec_open", "rec_svc"} /\ rec.caller # "direct") => rec.wav_len >= 44

\* C10: speech_to_text returns a transcript or None, and when a recognition step comes
\* back empty (its backends failed, or were never reached) or a conversion yields
\* nothing usable, the chain moves on to the next strategy or fallback instead of
\* giving up.
C10_FailuresMoveOn ==
    /\ [](vp_ret = None \/ TruthyText(vp_ret))
    /\ [][/\ (vp_pc \in {"rec_open", "rec_svc"} /\ rec' = NoRec /\ last_result' = None =>
                CASE rec.caller = "quick" -> vp_pc' = "alt"
                  [] rec.caller \in {"loop", "direct"} ->
                        vp_pc' = "loop" /\ method_idx' = method_idx + 1
                  [] rec.caller = "rawx" -> vp_pc' = "rawx" /\ rate_idx' = rate_idx + 1
                  [] rec.caller = "ffmpeg" -> vp_pc' = "mock")
          /\ (vp_pc = "loop" /\ vp_pc' = "loop" => method_idx' = method_idx + 1)
          /\ (vp_pc' = "done" /\ vp_ret' = None =>
                vp_pc \in {"start", "mock"})]_vars

C10_Witness ==
    /\ vp_pc = "loop"
    /\ method_idx = 3
    /\ backend_called
    /\ last_result = None
    /\ Len(recognition_methods) = 4

\* C11: a temporary file exists only while the attempt that created it is running
\* (the recognition step's file during that step, the ffmpeg files during the ffmpeg
\* extraction), and none remains once speech_to_text has returned
C11_TempFilesRemoved ==
    /\ (vp_pc = "done" => temp_files = {})
    /\ (vp_pc \notin {"rec_open", "rec_svc"} => temp_files = {})
    /\ (vp_pc \in {"rec_open", "rec_svc"} =>
          temp_files \subseteq ({RecFile(rec.caller)} \cup
                                (IF rec.caller = "ffmpeg" THEN FfmpegFiles ELSE {})))

\* C12: with interleaved generate_response calls the choice is never promoted from
\* remote back to local
C12_NoRepromotionWhenInterleaved ==
    [][use_ollama = "False" => use_ollama' # "True"]_vars

\* C13 as stated: every blob that begins with the EBML magic, whatever its length,
\* is classified webm with needs_conversion
C13_EbmlAlwaysWebm ==
    (vp_pc = "classified" /\ audio_data.b0_4 = "EBML") =>
        (format_info.format = "webm" /\ format_info.needs_conversion)

\* C13 amended: every blob of at least 12 bytes that begins with the EBML magic is
\* classified webm with needs_conversion; a shorter one is classified unknown with
\* needs_conversion false
C13_EbmlWebmFrom12Bytes ==
    (vp_pc = "classified" /\ audio_data.b0_4 = "EBML") =>
        IF audio_data.len >= 12
        THEN format_info.format = "webm" /\ format_info.needs_conversion
        ELSE format_info.format = "unknown" /\ ~format_info.needs_conversion

C13_Witness ==
    /\ vp_pc = "classified"
    /\ audio_data.b0_4 = "EBML"
    /\ audio_data.len = 12
    /\ audio_data.ftyp20
    /\ format_info.format = "webm"

\* C14: a blob of at least 2000 bytes with 'RIFF' at bytes[0:4] and 'WAVE' at
\* bytes[8:12] is classified wav, valid, without conversion, whatever other signature
\* it holds
C14_RiffWaveIsWav ==
    (vp_pc = "classified" /\ audio_data.len >= 2000
       /\ audio_data.b0_4 = "RIFF" /\ audio_data.b8_12 = "WAVE") =>
        (format_info.format = "wav" /\ ~format_info.needs_conversion /\ format_info.is_valid)

C14_Witness ==
    /\ vp_pc = "classified"
    /\ audio_data.len = 2000
    /\ audio_data.b0_4 = "RIFF" /\ audio_data.b8_12 = "WAVE"
    /\ audio_data.ftyp20
    /\ audio_data.opus_start > 0
    /\ format_info.format = "wav"

\* C15 as stated: a stripped text shorter than 15 characters without the word
\* 'documentation' is replaced by the canonical fallback sentence, and every other
\* stripped text is kept (possibly with a final period appended)
C15_ShortReplacedElseKept ==
    gen_pc[1] = "cleaned" =>
        LET r == StripScaffolding(gen_out[1][1])
        IN  IF Len(r) < 15 /\ ~InLower("documentation", r)
            THEN gen_ret[1] = Some(CanonicalFallback)
            ELSE gen_ret[1] \in {Some(r), Some(r \o ".")}

\* C15 amended: a stripped text that contains the generic support sentence, or that
\* is shorter than 15 characters without the word 'documentation' (in any case), is
\* replaced by the canonical fallback sentence; every other stripped text is kept,
\* with a period appended unless it ends with one of ? . ! ) "
C15_GenericOrShortReplacedElseKept ==
    gen_pc[1] = "cleaned" =>
        LET r == StripScaffolding(gen_out[1][1])
        IN  IF Contains(r, "I'm here to provide support based on our documentation")
               \/ (Len(r) < 15 /\ ~InLower("documentation", r))
            THEN gen_ret[1] = Some(CanonicalFallback)
            ELSE gen_ret[1] =
                   Some(IF \E e \in {"?", ".", "!", ")", "\""} : EndsWith(r, e)
                        THEN r ELSE r \o ".")

C15_Witness ==
    /\ gen_pc[1] = "cleaned"
    /\ gen_out[1] = Some("Response:ok")
    /\ gen_ret[1] = Some(CanonicalFallback)

\* C16 as stated: every text returned by generate_response ends with '.', '?' or '!'
C16_EndsWithSentencePunctuation ==
    \A c \in Calls :
        gen_pc[c] = "done" /\ gen_ret[c] # None =>
            \E e \in {".", "?", "!"} : EndsWith(gen_ret[c][1], e)

\* C16 amended: every text returned by generate_response ends with one of
\* . ? ! ) " : a period is appended to a backend text that ends with none of them
C16_EndsWithAcceptedEnding ==
    \A c \in Calls :
        gen_pc[c] = "done" /\ gen_ret[c] # None =>
            \E e \in {".", "?", "!", ")", "\""} : EndsWith(gen_ret[c][1], e)

C16_Witness ==
    \E c \in Calls :
        /\ gen_pc[c] = "done"
        /\ gen_out[c] = Some("We offer two plans")
        /\ gen_ret[c] = Some("We offer two plans.")

\* C17: process_speech_input always returns a dict with a success flag: on success
\* a non-empty transcript and a response text, on failure an error explanation, a
\* fallback response text and no transcript; whatever recognition, generation and
\* speech synthesis do, the only way out is the return of such a dict
C17_StructuredResult ==
    /\ psi_pc \in {"speech_to_text", "generate", "llm", "tts", "returned"}
    /\ (psi_pc = "returned" =>
          /\ psi_result.response_text # ""
          /\ IF psi_result.success
             THEN /\ TruthyText(psi_result.transcribed_text)
                  /\ psi_result.error = None
             ELSE /\ psi_result.transcribed_text = None
                  /\ psi_result.error # None
                  /\ psi_result.error # Some(""))
    /\ (psi_pc # "returned" => psi_result = NoResult)

C17_Witness ==
    /\ psi_pc = "returned"
    /\ ~psi_result.success
    /\ audio_data.len = 499
    /\ psi_result.error = Some("Audio very small")
    /\ psi_result.transcribed_text = None
    /\ psi_result.audio_response = None

\* C18 as stated (Scenario A): for a blob of 50 bytes the gate says invalid with a
\* message of the 'too small' kind, and speech_to_text returns without any
\* conversion or recognition
C18_FiftyBytesInvalid ==
    (audio_data.len = 50 /\ vp_pc # "start") =>
        /\ ~validation.is_valid
        /\ validation.error = "Audio too small"
        /\ vp_pc = "done" /\ vp_ret = None
        /\ vp_log = << >> /\ ~backend_called

\* C18 amended: for a blob of 50 bytes the gate says valid with likely_has_speech
\* false and the message 'Audio very small'; speech_to_text returns None at once,
\* without any conversion or recognition
C18_FiftyBytesValidButNotProcessed ==
    (audio_data.len = 50 /\ vp_pc # "start") =>
        /\ validation.is_valid
        /\ ~validation.likely_has_speech
        /\ validation.error = "Audio very small"
        /\ vp_pc = "done" /\ vp_ret = None
        /\ vp_log = << >> /\ ~backend_called

C18_Witness ==
    /\ audio_data.len = 50
    /\ vp_pc = "done"
    /\ validation.size = 50

\* C19 (Scenario B): a 1500-byte blob without signature is classified unknown and
\* found valid with likely_has_speech false; when no real attempt yields a
\* transcript speech_to_text returns the phrase of the list for blobs of 1 KB and
\* more that the first byte of the md5 digest selects, whatever else happened
C19_MockPhraseByContentHash ==
    /\ vp_pc # "start" =>
          /\ validation.is_valid /\ ~validation.likely_has_speech
          /\ format_info.format = "unknown"
    /\ (vp_pc = "done" /\ Logged("yield") = {}) =>
          /\ Logged("mock") # {}
          /\ \E k \in 1..Len(MockResponsesLarge) : vp_ret = Some(MockResponsesLarge[k])
          /\ vp_ret = Some(MockResponsesLarge[(audio_data.md5_0 % 5) + 1])

C19_Witness ==
    /\ vp_pc = "done"
    /\ audio_data.md5_0 = 7
    /\ backend_called
    /\ Logged("yield") = {}
    /\ vp_ret = Some(MockResponsesLarge[3])

\* C20 (Scenario C): for a blob of at least 2000 bytes classified wav the first
\* strategy is original_wav, it hands the bytes to the recognition step as they are,
\* without a conversion, and a transcript of that step is returned as it is
\* (stripped) with no other strategy, extraction or mock run
C20_OriginalWavFirstAndReturned ==
    (format_info.format = "wav" /\ audio_data.len >= 2000) =>
        /\ vp_pc = "loop" /\ method_idx = 1 => vp_log = << >>
        /\ Len(vp_log) >= 2 =>
              /\ vp_log[1] = Event("strategy", "original_wav")
              /\ vp_log[2] = Event("recognize", "original_wav")
        /\ (vp_pc \in {"rec_open", "rec_svc"} /\ rec.method = "original_wav") =>
              rec.wav_len = audio_data.len
        /\ (\E k \in Logged("yield") : vp_log[k][2] = "original_wav") =>
              /\ vp_pc = "done"
              /\ vp_ret = last_result
              /\ TruthyText(vp_ret) /\ Strip(vp_ret[1]) = vp_ret[1]
              /\ StrategiesBegun = <<Event("strategy", "original_wav")>>
              /\ Logged("convert") = {} /\ Logged("alternative") = {}
              /\ Logged("mock") = {}

C20_Witness ==
    /\ vp_pc = "done"
    /\ format_info.format = "wav" /\ audio_data.len = 2000
    /\ vp_log = <<Event("strategy", "original_wav"), Event("recognize", "original_wav"),
                  Event("yield", "original_wav")>>
    /\ vp_ret = Some(<<"h", "i">>)

\* C21 as stated: for every valid blob with likely_has_speech false (44 to 1999
\* bytes), when nothing yields a transcript the alternative extraction and then the
\* mock fallback have been run, in that order, before speech_to_text returns
C21_SmallBlobAlternativeThenMock ==
    (validation.is_valid /\ ~validation.likely_has_speech) =>
        /\ \A m \in Logged("mock") : \E a \in Logged("alternative") : a < m
        /\ \A a \in Logged("alternative") :
              \A k \in Logged("recognize") : vp_log[k][2] = "webm_quick" => k < a
        /\ (vp_pc = "done" /\ Logged("yield") = {}) =>
              (Logged("alternative") # {} /\ Logged("mock") # {})

\* C21 amended: the same for blobs of 500 to 1999 bytes; a valid blob under 500
\* bytes is returned None at once, with no alternative extraction and no mock
C21_From500AlternativeThenMock ==
    (validation.is_valid /\ ~validation.likely_has_speech) =>
        /\ \A m \in Logged("mock") : \E a \in Logged("alternative") : a < m
        /\ \A a \in Logged("alternative") :
              \A k \in Logged("recognize") : vp_log[k][2] = "webm_quick" => k < a
        /\ (vp_pc = "done" /\ Logged("yield") = {}) =>
              IF audio_data.len >= EarlyExitSize
              THEN Logged("alternative") # {} /\ Logged("mock") # {}
              ELSE vp_log = << >> /\ vp_ret = None

C21_Witness ==
    /\ vp_pc = "done"
    /\ audio_data.len = 500
    /\ format_info.format = "webm"
    /\ Logged("yield") = {}
    /\ \E k \in Logged("recognize") : vp_log[k][2] = "webm_quick"
    /\ Logged("alternative") # {}
    /\ vp_log[Len(vp_log)] = Event("mock", "")

\* C22 as stated: for every valid blob with likely_has_speech false, of any detected
\* container format, one conversion and one recognition attempt precede the
\* alternative extraction
C22_QuickAttemptForEveryFormat ==
    (validation.is_valid /\ ~validation.likely_has_speech
        /\ format_info.format \in {"webm", "mp4", "ogg", "wav"}) =>
        \A a \in Logged("alternative") :
            \E c \in Logged("convert"), k \in Logged("recognize") : c < k /\ k < a

\* C22 amended: only a blob detected as webm gets the quick attempt, one conversion
\* followed by at most one recognition; for every other format the alternative
\* extraction starts with no conversion and no recognition before it
C22_QuickAttemptForWebmOnly ==
    (validation.is_valid /\ ~validation.likely_has_speech) =>
        \A a \in Logged("alternative") :
            LET convs == {c \in Logged("convert") : c < a}
                recs  == {k \in Logged("recognize") : k < a}
            IN  IF format_info.format = "webm"
                THEN /\ Cardinality(convs) = 1
                     /\ Cardinality(recs) <= 1
                     /\ \A c \in convs : vp_log[c][2] = "webm_quick"
                     /\ \A k \in recs : vp_log[k][2] = "webm_quick" /\ \A c \in convs : c < k
                ELSE a = 1

C22_Witness ==
    /\ validation.is_valid /\ ~validation.likely_has_speech
    /\ format_info.format = "webm"
    /\ Len(vp_log) >= 3
    /\ vp_log[1] = Event("convert", "webm_quick")
    /\ vp_log[2] = Event("recognize", "webm_quick")
    /\ vp_log[3][1] = "alternative"

\* C23: for a blob shorter than 2000 bytes the full strategy list is never built
\* nor run: no strategy of the list is begun, the direct-container recognition, the
\* enhanced conversion and the raw-PCM fallback are never executed, and at most one
\* conversion and one recognition attempt happen before alternative extraction
C23_NoFullListUnder2000 ==
    audio_data.len < 2000 =>
        /\ recognition_methods = << >>
        /\ vp_pc # "loop"
        /\ StrategiesBegun = << >>
        /\ Logged("direct") = {}
        /\ \A k \in 1..Len(vp_log) :
              vp_log[k][2] \notin {"direct_webm", "webm_enhanced", "webm_standard",
                                   "mp4_converted", "ogg_converted", "original_wav",
                                   "raw_pcm_fallback"}
        /\ rec # NoRec => rec.caller \in {"quick", "rawx", "ffmpeg"}
        /\ LET first_alt == IF Logged("alternative") = {} THEN Len(vp_log) + 1
                            ELSE CHOOSE a \in Logged("alternative") :
                                   \A b \in Logged("alternative") : a <= b
           IN  /\ Cardinality({k \in Logged("recognize") : k < first_alt}) <= 1
               /\ Cardinality({c \in Logged("convert") : c < first_alt}) <= 1
               /\ \A k \in 1..Len(vp_log) : k < first_alt => vp_log[k][2] = "webm_quick"

C23_Witness ==
    /\ audio_data.len = 1999
    /\ format_info.format = "webm"
    /\ vp_pc = "done"
    /\ Logged("recognize") # {}
    /\ Logged("alternative") # {}
    /\ backend_called

\* the full strategy list of a webm blob, in the order of lines 184-208
WebmStrategyOrder == <<"direct_webm", "webm_enhanced", "webm_standard", "raw_pcm_fallback">>

\* C24: for a webm blob on the full path the strategies are begun in the order
\* direct-container recognition, enhanced conversion, standard conversion, raw-PCM
\* fallback, each one only after every earlier one has come back without a
\* transcript, and the direct one hands the container itself to the backends
C24_WebmStrategyOrder ==
    (format_info.format = "webm" /\ vp_pc \notin {"start", "quick"}
        /\ Logged("strategy") # {}) =>
        /\ Len(StrategiesBegun) <= Len(WebmStrategyOrder)
        /\ \A i \in 1..Len(StrategiesBegun) : StrategiesBegun[i][2] = WebmStrategyOrder[i]
        /\ \A k \in Logged("strategy") : \A y \in Logged("yield") : k < y
        /\ \A k \in Logged("strategy") :
              \A j \in Logged("alternative") \cup Logged("mock") : k < j
        /\ \A d \in Logged("direct") : vp_log[d][2] = "direct_webm" /\ d = 2
        /\ \A c \in Logged("convert") :
              vp_log[c][2] \in {"webm_enhanced", "webm_standard", "raw_pcm_fallback"}
                 => vp_log[c - 1] = Event("strategy", vp_log[c][2])
        /\ (vp_pc \in {"rec_open", "rec_svc"} /\ rec.caller \in {"loop", "direct"}) =>
              (Len(StrategiesBegun) > 1 => last_result = None)

C24_Witness ==
    /\ format_info.format = "webm"
    /\ audio_data.len = 2000
    /\ Len(StrategiesBegun) = 4
    /\ vp_pc = "rec_svc"
    /\ rec.method = "raw_pcm_fallback"
    /\ backend_called

\* the recognition attempts made on a raw-PCM reinterpretation of the whole blob
RawPcmSubmissions == {k \in Logged("recognize") : vp_log[k][2] = "raw_pcm_fallback"}

\* C25: the raw-PCM fallback submits one reinterpretation per sample rate of PcmRates,
\* in order, until a recognizer accepts one: once the fallback has come back without
\* a transcript every one of the rates has been submitted to the recognition step
C25_NextRateAfterEmptyRecognition ==
    (RawPcmSubmissions # {} /\ Logged("alternative") # {}) =>
        Cardinality(RawPcmSubmissions) = Len(PcmRates)

\* C26: over all generate_response calls on one service, interleaved ones included,
\* the probe is issued at most once and use_ollama is written at most twice (the
\* probe result, then at most one demotion to remote)
C26_ChoiceWrittenAtMostTwice ==
    /\ Cardinality(GenLoggedAny("probe")) <= 1
    /\ Cardinality(GenLoggedAny("pin")) <= 2

\* a step of _try_speech_recognition that returns to its caller
RecognitionStepReturns ==
    /\ vp_pc \in {"rec_open", "rec_svc"}
    /\ rec.caller # "direct"
    /\ rec' = NoRec

\* the backends of one recognition step are called in list order, the first one
\* first, and a transcript that is returned is non-empty and stripped
BackendsInOrderFirstTranscript ==
    /\ (vp_pc = "rec_open" /\ vp_pc' = "rec_svc") => rec'.svc = 1
    /\ (vp_pc = "rec_svc" /\ rec.caller # "direct") =>
          /\ rec.svc \in 1..Len(RecognitionServices)
          /\ backend_called'
          /\ rec' # NoRec => (vp_pc' = "rec_svc" /\ rec'.svc = rec.svc + 1)
    /\ (RecognitionStepReturns /\ last_result' # None) =>
          /\ vp_pc = "rec_svc"
          /\ TruthyText(last_result')
          /\ Strip(last_result'[1]) = last_result'[1]

\* C27 as stated: within one recognition step the backends are tried in list order,
\* the first one first; a backend that fails in any way or returns a blank text
\* makes the step try the next one; the step returns the first non-empty transcript,
\* stripped, and returns None only after every backend has been tried
C27_NoneOnlyAfterEveryBackend ==
    [][/\ BackendsInOrderFirstTranscript
       /\ (RecognitionStepReturns /\ last_result' = None) =>
             (vp_pc = "rec_svc" /\ rec.svc = Len(RecognitionServices))]_vars

\* C27 amended: the same, except that the step also returns None with no backend
\* tried when the audio cannot be written to or read back from its temporary file
C27_NoneAfterEveryBackendOrUnreadable ==
    [][/\ BackendsInOrderFirstTranscript
       /\ (RecognitionStepReturns /\ last_result' = None) =>
             \/ vp_pc = "rec_svc" /\ rec.svc = Len(RecognitionServices)
             \/ vp_pc = "rec_open" /\ rec.svc = 0 /\ backend_called' = backend_called]_vars

C27_Witness ==
    /\ vp_pc = "rec_svc"
    /\ rec.caller = "loop"
    /\ rec.svc = Len(RecognitionServices)
    /\ backend_called

\* C28: on the full path the strategy list is fixed by the detected format: three
\* strategies for webm, the one container conversion for mp4 or ogg, the original
\* bytes for wav, nothing for unknown; the raw-PCM fallback is always its last
\* element, since the list is only built for blobs longer than 1000 bytes, so a blob
\* of unknown format is attempted with the raw-PCM fallback alone
C28_StrategyListByFormat ==
    (audio_data.len >= 2000 /\ vp_pc # "start") =>
        /\ audio_data.len > 1000
        /\ recognition_methods =
              (CASE format_info.format = "webm" ->
                        <<"direct_webm", "webm_enhanced", "webm_standard">>
                 [] format_info.format = "mp4" -> <<"mp4_converted">>
                 [] format_info.format = "ogg" -> <<"ogg_converted">>
                 [] format_info.format = "wav" -> <<"original_wav">>
                 [] format_info.format = "unknown" -> << >>)
              \o <<"raw_pcm_fallback">>
        /\ format_info.format = "unknown" =>
              \A k \in Logged("strategy") \cup Logged("direct") :
                  vp_log[k][2] = "raw_pcm_fallback"
        /\ (format_info.format = "unknown" /\ Logged("alternative") # {}) =>
              StrategiesBegun = <<Event("strategy", "raw_pcm_fallback")>>

C28_Witness ==
    /\ audio_data.len = 2000
    /\ format_info.format = "unknown"
    /\ recognition_methods = <<"raw_pcm_fallback">>
    /\ StrategiesBegun = <<Event("strategy", "raw_pcm_fallback")>>
    /\ vp_pc = "alt"

\* C29: speech_to_text returns None exactly for blobs shorter than 500 bytes: from
\* 500 bytes on it returns a non-empty transcript, a recognized one or else a mock
\* phrase, whatever the conversions, backends and extractions do; under 500 bytes it
\* returns None with no conversion, recognition, extraction or mock step run
C29_NoneExactlyUnder500 ==
    vp_pc = "done" =>
        /\ (vp_ret = None) <=> (audio_data.len < 500)
        /\ audio_data.len >= 500 =>
              /\ TruthyText(vp_ret)
              /\ \/ Logged("yield") # {} /\ vp_ret = last_result
                 \/ /\ Logged("yield") = {}
                    /\ vp_log[Len(vp_log)] = Event("mock", "")
                    /\ vp_ret = TryMockRecognition(audio_data)
        /\ audio_data.len < 500 =>
              /\ vp_log = << >>
              /\ ~backend_called
              /\ converted_audio = None
              /\ temp_files = {}

C29_Witness ==
    /\ vp_pc = "done"
    /\ audio_data.len = 2001
    /\ format_info.format = "mp4"
    /\ backend_called
    /\ Logged("yield") = {}
    /\ vp_ret = Some(<<"M", "2">>)

\* C30: a generate_response call invokes the local backend at most once and the
\* remote backend at most once; after a successful local call the same call does not
\* invoke the remote backend and does not touch the choice, which stays local; a
\* call that finds the choice remote does not invoke the local backend
C30_EachBackendAtMostOncePerCall ==
    \A c \in Calls :
        /\ Cardinality(GenLogged("local", c)) <= 1
        /\ Cardinality(GenLogged("remote", c)) <= 1
        /\ \A k \in GenLogged("local", c) :
              gen_log[k][3] = "status_200" =>
                 /\ GenLogged("remote", c) = {}
                 /\ GenLogged("local_failed", c) = {}
                 /\ \A j \in GenLogged("pin", c) : j < k
                 /\ gen_pc[c] = "done"
                 /\ (k = Len(gen_log) => use_ollama = "True")
        /\ \A k \in GenLogged("remote", c) :
              gen_log[k][3] = "line61" => GenLogged("local", c) = {}
        /\ (use_ollama = "False" => gen_pc[c] # "local")

C30_Witness ==
    /\ gen_pc[1] = "done" /\ gen_pc[2] = "done"
    /\ GenLogged("local", 1) # {} /\ GenLogged("remote", 1) = {}
    /\ GenLogged("local_failed", 2) # {}
    /\ Cardinality(GenLogged("local", 2)) = 1
    /\ Cardinality(GenLogged("remote", 2)) = 1
    /\ use_ollama = "False"

====
